---- MODULE Spec2Model ----
(***************************************************************************)
(* Validation of SpaceStation (ex0), AlienContact (ex1) and SpaceMission   *)
(* (ex2) records: field coercion and constraints declared with Field(...), *)
(* then the mode="after" model validators of the two classes that have one.*)
(*                                                                         *)
(* Representation:                                                         *)
(*   - a raw value is a record [t, v]: t is the Python type of the input   *)
(*     ("int", "float", "str", "bool", "list", "none", "absent" when the   *)
(*     key is missing from the mapping), v its value;                      *)
(*   - a string is a sequence of one-character strings;                    *)
(*   - a float is an integer number of tenths (85.5 is 855, 7.0 is 70);    *)
(*   - a str | None value is [isNone, s].                                  *)
(***************************************************************************)
EXTENDS Integers, Sequences, FiniteSets, TLC

VARIABLES model, raw, pc, candidate, errors, exc, rules_run

vars == <<model, raw, pc, candidate, errors, exc, rules_run>>

(***************************************************************************)
(* Bounds of the enumerated inputs.                                        *)
(***************************************************************************)
\* numeric inputs go this many units below a declared minimum and above a
\* declared maximum
Margin == 1
\* crew lists of every length 0..MaxCrew are enumerated member by member
MaxCrew == 2
\* an input differs from a sample payload in at most MaxChanged fields
MaxChanged == 2

(***************************************************************************)
(* Raw values.                                                             *)
(***************************************************************************)
RInt(n) == [t |-> "int", v |-> n]
RFloat(tenths) == [t |-> "float", v |-> tenths]
RStr(s) == [t |-> "str", v |-> s]
RBool(b) == [t |-> "bool", v |-> b]
RList(l) == [t |-> "list", v |-> l]
RNone == [t |-> "none", v |-> 0]
Absent == [t |-> "absent", v |-> 0]

Rep(c, n) == [i \in 1..n |-> c]

(***************************************************************************)
(* Strings.                                                                *)
(***************************************************************************)
Digits == <<"0", "1", "2", "3", "4", "5", "6", "7", "8", "9">>

IsDigit(c) == \E i \in 1..10 : Digits[i] = c

DigitVal(c) == (CHOOSE i \in 1..10 : Digits[i] = c) - 1

AllDigits(s) == Len(s) > 0 /\ \A i \in 1..Len(s) : IsDigit(s[i])

RECURSIVE DigitsVal(_)
DigitsVal(s) ==
    IF Len(s) = 0 THEN 0
    ELSE 10 * DigitsVal(SubSeq(s, 1, Len(s) - 1)) + DigitVal(s[Len(s)])

\* str.startswith
startswith(s, p) == Len(s) >= Len(p) /\ SubSeq(s, 1, Len(p)) = p

Upper == <<"A", "E", "F", "L", "N", "O", "R", "S", "T", "U", "Y">>
Lower == <<"a", "e", "f", "l", "n", "o", "r", "s", "t", "u", "y">>

LowerChar(c) ==
    IF \E i \in 1..Len(Upper) : Upper[i] = c
    THEN Lower[CHOOSE i \in 1..Len(Upper) : Upper[i] = c]
    ELSE c

LowerStr(s) == [i \in 1..Len(s) |-> LowerChar(s[i])]

(***************************************************************************)
(* Coercion of one raw value to a field's type (pydantic's default, lax    *)
(* mode, which these classes use: none of them sets strict).  Each returns *)
(* [ok, val, type, ctx]: the coerced value, or the error's type.           *)
(***************************************************************************)
Ok(val) == [ok |-> TRUE, val |-> val, type |-> "", ctx |-> 0]
Err(type, ctx) == [ok |-> FALSE, val |-> 0, type |-> type, ctx |-> ctx]

\* a str field takes str input only
CoerceStr(r) ==
    IF r.t = "str" THEN Ok(r.v) ELSE Err("string_type", 0)

\* an int field takes an int, a bool (as 0 or 1), a float without fractional
\* part, or a string of digits with an optional sign
CoerceInt(r) ==
    CASE r.t = "int" -> Ok(r.v)
      [] r.t = "bool" -> Ok(IF r.v THEN 1 ELSE 0)
      [] r.t = "float" ->
            IF r.v % 10 = 0 THEN Ok(r.v \div 10) ELSE Err("int_from_float", 0)
      [] r.t = "str" ->
            IF AllDigits(r.v) THEN Ok(DigitsVal(r.v))
            ELSE IF Len(r.v) > 1 /\ r.v[1] = "-" /\ AllDigits(Tail(r.v))
                 THEN Ok(0 - DigitsVal(Tail(r.v)))
                 ELSE Err("int_parsing", 0)
      [] OTHER -> Err("int_type", 0)

\* a float field takes a float, an int, a bool, or a string of digits with an
\* optional sign (the value is kept in tenths)
CoerceFloat(r) ==
    CASE r.t = "float" -> Ok(r.v)
      [] r.t = "int" -> Ok(r.v * 10)
      [] r.t = "bool" -> Ok(IF r.v THEN 10 ELSE 0)
      [] r.t = "str" ->
            IF AllDigits(r.v) THEN Ok(DigitsVal(r.v) * 10)
            ELSE IF Len(r.v) > 1 /\ r.v[1] = "-" /\ AllDigits(Tail(r.v))
                 THEN Ok(0 - DigitsVal(Tail(r.v)) * 10)
                 ELSE Err("float_parsing", 0)
      [] OTHER -> Err("float_type", 0)

BoolTrueStrs ==
    { <<"1">>, <<"o", "n">>, <<"t">>, <<"t", "r", "u", "e">>, <<"y">>,
      <<"y", "e", "s">> }
BoolFalseStrs ==
    { <<"0">>, <<"o", "f", "f">>, <<"f">>, <<"f", "a", "l", "s", "e">>, <<"n">>,
      <<"n", "o">> }

\* CoerceBool as Python's bool(x) would do it
CoerceBool_Truthy(r) ==
    CASE r.t = "bool" -> Ok(r.v)
      [] r.t \in {"int", "float"} -> Ok(r.v # 0)
      [] r.t = "str" -> Ok(Len(r.v) > 0)
      [] OTHER -> Err("bool_type", 0)

\* a bool field takes a bool, the ints 0 and 1, the floats 0.0 and 1.0, and
\* the strings above in any letter case
CoerceBool(r) ==
    CASE r.t = "bool" -> Ok(r.v)
      [] r.t = "int" ->
            IF r.v \in {0, 1} THEN Ok(r.v = 1) ELSE Err("bool_parsing", 0)
      [] r.t = "float" ->
            IF r.v \in {0, 10} THEN Ok(r.v = 10) ELSE Err("bool_parsing", 0)
      [] r.t = "str" ->
            IF LowerStr(r.v) \in BoolTrueStrs THEN Ok(TRUE)
            ELSE IF LowerStr(r.v) \in BoolFalseStrs THEN Ok(FALSE)
                 ELSE Err("bool_parsing", 0)
      [] OTHER -> Err("bool_type", 0)

\* an Enum field takes one of the members' values, case-sensitively
CoerceEnum(r, values) ==
    IF r.t = "str" /\ \E i \in 1..Len(values) : values[i] = r.v
    THEN Ok(r.v)
    ELSE Err("enum", 0)

\* a datetime field: the string form YYYY-MM-DDTHH:MM:SS
Num2(s, i) == DigitsVal(SubSeq(s, i, i + 1))

IsoShape(s) ==
    /\ Len(s) = 19
    /\ s[5] = "-" /\ s[8] = "-" /\ s[11] = "T" /\ s[14] = ":" /\ s[17] = ":"
    /\ \A i \in (1..19) \ {5, 8, 11, 14, 17} : IsDigit(s[i])

CoerceDatetime(r) ==
    IF r.t # "str" THEN Err("datetime_type", 0)
    ELSE IF ~IsoShape(r.v) THEN Err("datetime_from_date_parsing", 0)
    ELSE LET s == r.v
             dt == [year |-> DigitsVal(SubSeq(s, 1, 4)), month |-> Num2(s, 6),
                    day |-> Num2(s, 9), hour |-> Num2(s, 12),
                    minute |-> Num2(s, 15), second |-> Num2(s, 18)]
         IN IF /\ dt.month \in 1..12 /\ dt.day \in 1..31 /\ dt.hour \in 0..23
               /\ dt.minute \in 0..59 /\ dt.second \in 0..59
            THEN Ok(dt)
            ELSE Err("datetime_from_date_parsing", 0)

(***************************************************************************)
(* Field declarations.  lo and hi are min_length/max_length for a str or a *)
(* list and ge/le for a number; a float's bounds are in tenths.            *)
(***************************************************************************)
Bound(n) == [has |-> TRUE, n |-> n]
NoBound == [has |-> FALSE, n |-> 0]
NoneVal == [isNone |-> TRUE, s |-> <<>>]
SomeStr(s) == [isNone |-> FALSE, s |-> s]

\* name: type = Field(..., <bounds>)
Required(name, kind, lo, hi) ==
    [name |-> name, kind |-> kind, required |-> TRUE, default |-> 0,
     lo |-> lo, hi |-> hi, values |-> <<>>, item |-> <<>>]

\* name: type = <default>, or Field(<default>, <bounds>)
Defaulted(name, kind, default, lo, hi) ==
    [name |-> name, kind |-> kind, required |-> FALSE, default |-> default,
     lo |-> lo, hi |-> hi, values |-> <<>>, item |-> <<>>]

ContactType == << <<"r", "a", "d", "i", "o">>, <<"v", "i", "s", "u", "a", "l">>,
                  <<"p", "h", "y", "s", "i", "c", "a", "l">>,
                  <<"t", "e", "l", "e", "p", "a", "t", "h", "i", "c">> >>
RADIO == ContactType[1]
VISUAL == ContactType[2]
PHYSICAL == ContactType[3]
TELEPATHIC == ContactType[4]

Rank == << <<"c", "a", "d", "e", "t">>, <<"o", "f", "f", "i", "c", "e", "r">>,
           <<"l", "i", "e", "u", "t", "e", "n", "a", "n", "t">>,
           <<"c", "a", "p", "t", "a", "i", "n">>,
           <<"c", "o", "m", "m", "a", "n", "d", "e", "r">> >>
CADET == Rank[1]
OFFICER == Rank[2]
LIEUTENANT == Rank[3]
CAPTAIN == Rank[4]
COMMANDER == Rank[5]

SpaceStation ==
    << Required("station_id", "str", Bound(3), Bound(10)),
       Required("name", "str", Bound(1), Bound(50)),
       Required("crew_size", "int", Bound(1), Bound(20)),
       Required("power_level", "float", Bound(0), Bound(1000)),
       Required("oxygen_level", "float", Bound(0), Bound(1000)),
       Required("last_maintenance", "datetime", NoBound, NoBound),
       Defaulted("is_operational", "bool", TRUE, NoBound, NoBound),
       Defaulted("notes", "optstr", NoneVal, NoBound, Bound(200)) >>

AlienContact ==
    << Required("contact_id", "str", Bound(5), Bound(15)),
       Required("timestamp", "datetime", NoBound, NoBound),
       Required("location", "str", Bound(3), Bound(100)),
       [Required("contact_type", "enum", NoBound, NoBound)
            EXCEPT !.values = ContactType],
       Required("signal_strength", "float", Bound(0), Bound(100)),
       Required("duration_minutes", "int", Bound(1), Bound(1440)),
       Required("witness_count", "int", Bound(1), Bound(100)),
       Defaulted("message_received", "optstr", NoneVal, NoBound, Bound(500)),
       Defaulted("is_verified", "bool", FALSE, NoBound, NoBound) >>

CrewMember ==
    << Required("member_id", "str", Bound(3), Bound(10)),
       Required("name", "str", Bound(2), Bound(50)),
       [Required("rank", "enum", NoBound, NoBound) EXCEPT !.values = Rank],
       Required("age", "int", Bound(18), Bound(80)),
       Required("specialization", "str", Bound(3), Bound(30)),
       Required("years_experience", "int", Bound(0), Bound(50)),
       Defaulted("is_active", "bool", TRUE, NoBound, NoBound) >>

SpaceMission ==
    << Required("mission_id", "str", Bound(5), Bound(15)),
       Required("mission_name", "str", Bound(3), Bound(100)),
       Required("destination", "str", Bound(3), Bound(50)),
       Required("launch_date", "datetime", NoBound, NoBound),
       Required("duration_days", "int", Bound(1), Bound(3650)),
       [Required("crew", "list", Bound(1), Bound(12)) EXCEPT !.item = CrewMember],
       Defaulted("mission_status", "str", <<"p", "l", "a", "n", "n", "e", "d">>,
                 NoBound, NoBound),
       Required("budget_millions", "float", Bound(10), Bound(100000)) >>

(***************************************************************************)
(* Field validation.  An error entry is [loc, type, ctx]: loc is the       *)
(* field, and for an error inside crew[i] the index i and the member's     *)
(* field; ctx is the bound the value broke.                                *)
(***************************************************************************)
Loc(field) == [field |-> field, index |-> 0 - 1, sub |-> ""]

FieldError(field, type, ctx) ==
    [loc |-> Loc(field), type |-> type, ctx |-> ctx, msg |-> ""]

\* the error of crew[index].<e's field>
WithOuterLocation(e, field, index) ==
    [e EXCEPT !.loc = [field |-> field, index |-> index, sub |-> e.loc.field]]

RECURSIVE Concat(_)
Concat(seqs) ==
    IF Len(seqs) = 0 THEN <<>> ELSE Head(seqs) \o Concat(Tail(seqs))

Coerce(d, r) ==
    CASE d.kind = "str" -> CoerceStr(r)
      [] d.kind = "int" -> CoerceInt(r)
      [] d.kind = "float" -> CoerceFloat(r)
      [] d.kind = "bool" -> CoerceBool(r)
      [] d.kind = "datetime" -> CoerceDatetime(r)
      [] d.kind = "enum" -> CoerceEnum(r, d.values)

\* CheckRange with gt and lt in place of ge and le
CheckRange_Exclusive(d, n) ==
    IF d.lo.has /\ ~(n > d.lo.n) THEN Err("greater_than_equal", d.lo.n)
    ELSE IF d.hi.has /\ ~(n < d.hi.n) THEN Err("less_than_equal", d.hi.n)
    ELSE Ok(n)

\* ge and le, both inclusive
CheckRange(d, n) ==
    IF d.lo.has /\ ~(n >= d.lo.n) THEN Err("greater_than_equal", d.lo.n)
    ELSE IF d.hi.has /\ ~(n <= d.hi.n) THEN Err("less_than_equal", d.hi.n)
    ELSE Ok(n)

\* min_length and max_length of a str
CheckLength(d, s) ==
    IF d.lo.has /\ Len(s) < d.lo.n THEN Err("string_too_short", d.lo.n)
    ELSE IF d.hi.has /\ Len(s) > d.hi.n THEN Err("string_too_long", d.hi.n)
    ELSE Ok(s)

\* a field that is not a list: coercion, then the constraints on the coerced
\* value; [ok, val, type, ctx]
ValidateScalar(d, r) ==
    IF d.kind = "optstr"
    THEN IF r.t = "none" THEN Ok(NoneVal)
         ELSE LET c == CoerceStr(r)
                  l == CheckLength(d, c.val)
              IN IF ~c.ok THEN c ELSE IF ~l.ok THEN l ELSE Ok(SomeStr(c.val))
    ELSE LET c == Coerce(d, r)
         IN IF ~c.ok THEN c
            ELSE IF d.kind \in {"int", "float"} THEN CheckRange(d, c.val)
            ELSE IF d.kind = "str" THEN CheckLength(d, c.val)
            ELSE c

RECURSIVE ValidateModel(_, _)

\* a List[...] field: too_long as soon as the items pass max_length, else the
\* items' errors with their index, else too_short; [val, errs]
ValidateList(d, r) ==
    IF r.t # "list"
    THEN [val |-> <<>>, errs |-> <<FieldError(d.name, "list_type", 0)>>]
    ELSE LET items == [i \in 1..Len(r.v) |-> ValidateModel(d.item, r.v[i])]
             inner == Concat([i \in 1..Len(r.v) |->
                         [k \in 1..Len(items[i].errs) |->
                             WithOuterLocation(items[i].errs[k], d.name, i - 1)]])
         IN IF d.hi.has /\ Len(r.v) > d.hi.n
            THEN [val |-> <<>>,
                  errs |-> <<FieldError(d.name, "too_long", d.hi.n)>>]
            ELSE IF Len(inner) > 0 THEN [val |-> <<>>, errs |-> inner]
            ELSE IF d.lo.has /\ Len(r.v) < d.lo.n
            THEN [val |-> <<>>,
                  errs |-> <<FieldError(d.name, "too_short", d.lo.n)>>]
            ELSE [val |-> [i \in 1..Len(r.v) |-> items[i].obj], errs |-> <<>>]

\* one declared field of a mapping: [val, errs]; a missing key takes the
\* default, which is not validated, or is the error "missing"
ValidateField(d, r) ==
    IF r.t = "absent"
    THEN IF d.required
         THEN [val |-> 0, errs |-> <<FieldError(d.name, "missing", 0)>>]
         ELSE [val |-> d.default, errs |-> <<>>]
    ELSE IF d.kind = "list" THEN ValidateList(d, r)
    ELSE LET c == ValidateScalar(d, r)
         IN IF c.ok THEN [val |-> c.val, errs |-> <<>>]
            ELSE [val |-> 0, errs |-> <<FieldError(d.name, c.type, c.ctx)>>]

FieldNames(fields) == {fields[i].name : i \in 1..Len(fields)}

FieldOf(fields, name) ==
    fields[CHOOSE i \in 1..Len(fields) : fields[i].name = name]

\* ValidateModel stopping at the first invalid field
ValidateModel_FirstErrorOnly(fields, data) ==
    LET res == [i \in 1..Len(fields) |->
                    ValidateField(fields[i], data[fields[i].name])]
        all == Concat([i \in 1..Len(fields) |-> res[i].errs])
    IN [obj |-> [n \in FieldNames(fields) |->
                    res[CHOOSE i \in 1..Len(fields) : fields[i].name = n].val],
        errs |-> IF Len(all) = 0 THEN <<>> ELSE <<all[1]>>]

\* every field of the class is validated, in declaration order, and every
\* field's errors are kept: [obj, errs]
ValidateModel(fields, data) ==
    LET res == [i \in 1..Len(fields) |->
                    ValidateField(fields[i], data[fields[i].name])]
    IN [obj |-> [n \in FieldNames(fields) |->
                    res[CHOOSE i \in 1..Len(fields) : fields[i].name = n].val],
        errs |-> Concat([i \in 1..Len(fields) |-> res[i].errs])]

(***************************************************************************)
(* The model validators.  Each returns [raised, msg, run]: whether it      *)
(* raised ValueError, with which message, and the rules it evaluated.      *)
(***************************************************************************)
Raise(msg, run) == [raised |-> TRUE, msg |-> msg, run |-> run]
Return(run) == [raised |-> FALSE, msg |-> "", run |-> run]

\* Python truth value of a str | None
Truthy(o) == ~o.isNone /\ Len(o.s) > 0

\* validate_business_rules with the signal threshold taken inclusively
validate_business_rules_GE7(self) ==
    IF ~startswith(self.contact_id, <<"A", "C">>)
    THEN Raise("Contact ID must start with 'AC'", <<"id_prefix">>)
    ELSE IF self.contact_type = PHYSICAL /\ ~self.is_verified
    THEN Raise("Physical contact reports must be verified",
               <<"id_prefix", "physical_verified">>)
    ELSE IF self.contact_type = TELEPATHIC /\ self.witness_count < 3
    THEN Raise("Telepathic contact requires at least 3 witnesses",
               <<"id_prefix", "physical_verified", "telepathic_witnesses">>)
    ELSE IF self.signal_strength >= 70 /\ ~Truthy(self.message_received)
    THEN Raise("Strong signals (> 7.0) should include received messages",
               <<"id_prefix", "physical_verified", "telepathic_witnesses",
                 "strong_signal_message">>)
    ELSE Return(<<"id_prefix", "physical_verified", "telepathic_witnesses",
                  "strong_signal_message">>)

\* AlienContact.validate_business_rules
validate_business_rules(self) ==
    IF ~startswith(self.contact_id, <<"A", "C">>)
    THEN Raise("Contact ID must start with 'AC'", <<"id_prefix">>)
    ELSE IF self.contact_type = PHYSICAL /\ ~self.is_verified
    THEN Raise("Physical contact reports must be verified",
               <<"id_prefix", "physical_verified">>)
    ELSE IF self.contact_type = TELEPATHIC /\ self.witness_count < 3
    THEN Raise("Telepathic contact requires at least 3 witnesses",
               <<"id_prefix", "physical_verified", "telepathic_witnesses">>)
    ELSE IF self.signal_strength > 70 /\ ~Truthy(self.message_received)
    THEN Raise("Strong signals (> 7.0) should include received messages",
               <<"id_prefix", "physical_verified", "telepathic_witnesses",
                 "strong_signal_message">>)
    ELSE Return(<<"id_prefix", "physical_verified", "telepathic_witnesses",
                  "strong_signal_message">>)

\* any(m.rank in [Rank.CAPTAIN, Rank.COMMANDER] for m in self.crew)
has_leader(crew) ==
    \E i \in 1..Len(crew) : crew[i].rank \in {CAPTAIN, COMMANDER}

\* [m for m in self.crew if m.years_experience >= 5]
exeprienced_members(crew) ==
    SelectSeq(crew, LAMBDA m : m.years_experience >= 5)

\* TooFewExperienced with "//" in place of "/"
TooFewExperienced_FloorDiv(crew) ==
    Len(exeprienced_members(crew)) < Len(crew) \div 2

\* len(exeprienced_members) < (len(self.crew) / 2): "/" is true division, so
\* both sides are compared in tenths
TooFewExperienced(crew) ==
    Len(exeprienced_members(crew)) * 10 < (Len(crew) * 10) \div 2

\* validate_mission_safety with the crew's activity checked before the leader
validate_mission_safety_ActiveFirst(self) ==
    IF ~startswith(self.mission_id, <<"M">>)
    THEN Raise("Mission ID must start with 'M'", <<"id_prefix">>)
    ELSE IF ~(\A i \in 1..Len(self.crew) : self.crew[i].is_active)
    THEN Raise("All crew members must be active",
               <<"id_prefix", "all_active">>)
    ELSE IF ~has_leader(self.crew)
    THEN Raise("Mission must have at least one Commander or Captain",
               <<"id_prefix", "all_active", "leader">>)
    ELSE IF self.duration_days > 365 /\ TooFewExperienced(self.crew)
    THEN Raise("Long missions need 50% experienced crew (5+ years)",
               <<"id_prefix", "all_active", "leader", "experience">>)
    ELSE Return(<<"id_prefix", "all_active", "leader", "experience">>)

\* validate_mission_safety with the crew's activity checked inside the
\* "if self.duration_days > 365" block
validate_mission_safety_ActiveInsideIf(self) ==
    IF ~startswith(self.mission_id, <<"M">>)
    THEN Raise("Mission ID must start with 'M'", <<"id_prefix">>)
    ELSE IF ~has_leader(self.crew)
    THEN Raise("Mission must have at least one Commander or Captain",
               <<"id_prefix", "leader">>)
    ELSE IF self.duration_days > 365 /\ TooFewExperienced(self.crew)
    THEN Raise("Long missions need 50% experienced crew (5+ years)",
               <<"id_prefix", "leader", "experience">>)
    ELSE IF /\ self.duration_days > 365
            /\ ~(\A i \in 1..Len(self.crew) : self.crew[i].is_active)
    THEN Raise("All crew members must be active",
               <<"id_prefix", "leader", "experience", "all_active">>)
    ELSE Return(<<"id_prefix", "leader", "experience", "all_active">>)

\* SpaceMission.validate_mission_safety
validate_mission_safety(self) ==
    IF ~startswith(self.mission_id, <<"M">>)
    THEN Raise("Mission ID must start with 'M'", <<"id_prefix">>)
    ELSE IF ~has_leader(self.crew)
    THEN Raise("Mission must have at least one Commander or Captain",
               <<"id_prefix", "leader">>)
    ELSE IF self.duration_days > 365 /\ TooFewExperienced(self.crew)
    THEN Raise("Long missions need 50% experienced crew (5+ years)",
               <<"id_prefix", "leader", "experience">>)
    ELSE IF ~(\A i \in 1..Len(self.crew) : self.crew[i].is_active)
    THEN Raise("All crew members must be active",
               <<"id_prefix", "leader", "experience", "all_active">>)
    ELSE Return(<<"id_prefix", "leader", "experience", "all_active">>)

\* a ValueError raised by a model validator becomes the one entry of the
\* ValidationError
RuleError(msg) ==
    [loc |-> Loc(""), type |-> "value_error", ctx |-> 0, msg |-> msg]

\* the validator's own exception reaching the caller
Propagated_Unwrapped(r) == "ValueError"

\* what reaches the caller when a model validator raises
Propagated(r) == "ValidationError"

\* the model validators run whatever the fields' errors
FieldsPassed_Always(errs) == TRUE

\* the model validators run only on a candidate whose fields all validated
FieldsPassed(errs) == Len(errs) = 0

(***************************************************************************)
(* Inputs.  The texts of the sample payloads of the three main().          *)
(***************************************************************************)
ISS001 ==
    <<"I", "S", "S", "0", "0", "1">>
StationName ==
    <<"I", "n", "t", "e", "r", "n", "a", "t", "i", "o", "n", "a", "l", " ",
       "S", "p", "a", "c", "e", " ", "S", "t", "a", "t", "i", "o", "n">>
Jan20Noon ==
    <<"2", "0", "2", "4", "-", "0", "1", "-", "2", "0", "T", "1", "2", ":",
       "0", "0", ":", "0", "0">>
Month13 ==
    <<"2", "0", "2", "4", "-", "1", "3", "-", "2", "0", "T", "1", "2", ":",
       "0", "0", ":", "0", "0">>
Yesterday ==
    <<"y", "e", "s", "t", "e", "r", "d", "a", "y">>
AC_2024_001 ==
    <<"A", "C", "_", "2", "0", "2", "4", "_", "0", "0", "1">>
AC_2024_002 ==
    <<"A", "C", "_", "2", "0", "2", "4", "_", "0", "0", "2">>
XC_2024_001 ==
    <<"X", "C", "_", "2", "0", "2", "4", "_", "0", "0", "1">>
A_2024_001 ==
    <<"A", "_", "2", "0", "2", "4", "_", "0", "0", "1">>
Jan20Afternoon ==
    <<"2", "0", "2", "4", "-", "0", "1", "-", "2", "0", "T", "1", "4", ":",
       "3", "0", ":", "0", "0">>
Area51 ==
    <<"A", "r", "e", "a", " ", "5", "1", ",", " ", "N", "e", "v", "a", "d",
       "a">>
Greetings ==
    <<"G", "r", "e", "e", "t", "i", "n", "g", "s", " ", "f", "r", "o", "m",
       " ", "Z", "e", "t", "a", " ", "R", "e", "t", "i", "c", "u", "l", "i">>
M2024_TITAN ==
    <<"M", "2", "0", "2", "4", "_", "T", "I", "T", "A", "N">>
X2024_TITAN ==
    <<"X", "2", "0", "2", "4", "_", "T", "I", "T", "A", "N">>
MissionName ==
    <<"S", "o", "l", "a", "r", " ", "O", "b", "s", "e", "r", "v", "a", "t",
       "o", "r", "y", " ", "R", "e", "s", "e", "a", "r", "c", "h", " ", "M",
       "i", "s", "s", "i", "o", "n">>
Destination ==
    <<"S", "o", "l", "a", "r", " ", "O", "b", "s", "e", "r", "v", "a", "t",
       "o", "r", "y">>
Mar30 ==
    <<"2", "0", "2", "4", "-", "0", "3", "-", "3", "0", "T", "0", "0", ":",
       "0", "0", ":", "0", "0">>
Planned ==
    <<"p", "l", "a", "n", "n", "e", "d">>
CM001 ==
    <<"C", "M", "0", "0", "1">>
SarahWilliams ==
    <<"S", "a", "r", "a", "h", " ", "W", "i", "l", "l", "i", "a", "m", "s">>
MissionCommand ==
    <<"M", "i", "s", "s", "i", "o", "n", " ", "C", "o", "m", "m", "a", "n",
       "d">>
CM003 ==
    <<"C", "M", "0", "0", "3">>
AnnaJones ==
    <<"A", "n", "n", "a", " ", "J", "o", "n", "e", "s">>
Communications ==
    <<"C", "o", "m", "m", "u", "n", "i", "c", "a", "t", "i", "o", "n", "s">>
CM999 ==
    <<"C", "M", "9", "9", "9">>
NoobSaibot ==
    <<"N", "o", "o", "b", " ", "S", "a", "i", "b", "o", "t">>
Cleaning ==
    <<"C", "l", "e", "a", "n", "i", "n", "g">>

\* raw ints: the declared bounds lo and hi and up to Margin beyond each
IntsNear(lo, hi) ==
    {RInt(n) : n \in ((lo - Margin)..lo) \cup (hi..(hi + Margin))}

\* raw floats (in tenths): the declared bounds lo and hi, up to Margin units
\* beyond each, and a tenth beyond each
FloatsNear(lo, hi) ==
    {RFloat(lo - 10 * k) : k \in 0..Margin}
        \cup {RFloat(hi + 10 * k) : k \in 0..Margin}
        \cup {RFloat(lo - 1), RFloat(hi + 1)}

\* raw values given to a bool field
BoolInputs ==
    { RBool(TRUE), RBool(FALSE), RStr(<<"t", "r", "u", "e">>),
      RStr(<<"T", "r", "u", "e">>), RStr(<<"y", "e", "s">>),
      RStr(<<"f", "a", "l", "s", "e">>), RStr(<<"m", "a", "y", "b", "e">>),
      RInt(0), RInt(1), RInt(2), Absent }

\* the records got from r by replacing at most k of the fields from-th, ... of
\* the class by one of the field's alternative raw values
RECURSIVE ChangedFrom(_, _, _, _, _)
ChangedFrom(r, fields, alts, from, k) ==
    IF k = 0 \/ from > Len(fields) THEN {r}
    ELSE {r} \cup UNION { UNION { ChangedFrom([r EXCEPT ![fields[i].name] = v],
                                              fields, alts, i + 1, k - 1)
                                  : v \in alts[fields[i].name] }
                          : i \in from..Len(fields) }

(***************************************************************************)
(* SpaceStation inputs.                                                    *)
(***************************************************************************)
\* ex0 main(): valid_data
StationValid ==
    [station_id |-> RStr(ISS001), name |-> RStr(StationName),
     crew_size |-> RInt(6), power_level |-> RFloat(855),
     oxygen_level |-> RFloat(923), last_maintenance |-> RStr(Jan20Noon),
     is_operational |-> RBool(TRUE), notes |-> Absent]

\* ex0 main(): invalid_data
StationInvalid == [StationValid EXCEPT !.crew_size = RInt(25)]

StationAlts ==
    [station_id |-> {RStr(<<"I", "S">>), RStr(Rep("X", 11)), RInt(1), Absent},
     name |-> {RStr(<<>>), RStr(Rep("n", 51))},
     crew_size |-> IntsNear(1, 20)
                     \cup {RInt(25), RStr(<<"a", "b", "c">>), RStr(<<"6">>),
                           RFloat(65), Absent},
     power_level |-> FloatsNear(0, 1000) \cup {RInt(50), RStr(<<"x">>)},
     oxygen_level |-> FloatsNear(0, 1000),
     last_maintenance |-> {RStr(Yesterday), RStr(Month13), Absent},
     is_operational |-> BoolInputs,
     notes |-> {RNone, RStr(Rep("n", 200)), RStr(Rep("n", 201))}]


(***************************************************************************)
(* AlienContact inputs.                                                    *)
(***************************************************************************)
\* ex1 main(): valid_data
ContactValid ==
    [contact_id |-> RStr(AC_2024_001), timestamp |-> RStr(Jan20Afternoon),
     location |-> RStr(Area51), contact_type |-> RStr(RADIO),
     signal_strength |-> RFloat(85), duration_minutes |-> RInt(45),
     witness_count |-> RInt(5), message_received |-> RStr(Greetings),
     is_verified |-> RBool(TRUE)]

\* ex1 main(): invalid_data
ContactInvalid ==
    [ContactValid EXCEPT !.contact_id = RStr(AC_2024_002),
                         !.contact_type = RStr(TELEPATHIC),
                         !.witness_count = RInt(1)]

ContactAlts ==
    [contact_id |-> {RStr(<<"A", "C", "_", "1">>), RStr(XC_2024_001),
                     RStr(Rep("A", 16)), Absent},
     timestamp |-> {RStr(Yesterday)},
     location |-> {RStr(<<"L", "A">>)},
     contact_type |-> {RStr(VISUAL), RStr(PHYSICAL), RStr(TELEPATHIC),
                       RStr(<<"p", "s", "y", "c", "h", "i", "c">>),
                       RStr(<<"R", "A", "D", "I", "O">>)},
     signal_strength |-> FloatsNear(0, 100) \cup {RFloat(70), RFloat(71)},
     duration_minutes |-> IntsNear(1, 1440),
     witness_count |-> IntsNear(1, 100) \cup {RInt(3)},
     message_received |-> {Absent, RNone, RStr(<<>>), RStr(Rep("m", 500)),
                           RStr(Rep("m", 501))},
     is_verified |-> BoolInputs]

\* every combination of the values the four rules tell apart, all of them
\* valid field values
ContactRuleCases ==
    {[ContactValid EXCEPT !.contact_id = RStr(id), !.contact_type = RStr(ty),
                          !.signal_strength = RFloat(sig),
                          !.witness_count = RInt(w), !.message_received = msg,
                          !.is_verified = ver]
     : id \in {AC_2024_001, XC_2024_001, A_2024_001},
       ty \in {RADIO, VISUAL, PHYSICAL, TELEPATHIC},
       sig \in {0, 70, 71, 100}, w \in {1, 2, 3, 100},
       msg \in {Absent, RNone, RStr(<<>>), RStr(Greetings)},
       ver \in {RBool(TRUE), RBool(FALSE)}}


(***************************************************************************)
(* SpaceMission inputs.                                                    *)
(***************************************************************************)
Member(rank, years, active) ==
    [member_id |-> RStr(CM001), name |-> RStr(SarahWilliams),
     rank |-> RStr(rank), age |-> RInt(43),
     specialization |-> RStr(MissionCommand),
     years_experience |-> RInt(years), is_active |-> RBool(active)]

\* ex2 main(): valid_data
MissionValid ==
    [mission_id |-> RStr(M2024_TITAN), mission_name |-> RStr(MissionName),
     destination |-> RStr(Destination), launch_date |-> RStr(Mar30),
     duration_days |-> RInt(451),
     crew |-> RList(<< Member(CAPTAIN, 19, TRUE),
                       [member_id |-> RStr(CM003), name |-> RStr(AnnaJones),
                        rank |-> RStr(CADET), age |-> RInt(35),
                        specialization |-> RStr(Communications),
                        years_experience |-> RInt(15),
                        is_active |-> RBool(TRUE)] >>),
     mission_status |-> RStr(Planned), budget_millions |-> RFloat(22081)]

\* ex2 main(): invalid_data
MissionInvalid ==
    [MissionValid EXCEPT !.crew =
        RList(<< [member_id |-> RStr(CM999), name |-> RStr(NoobSaibot),
                  rank |-> RStr(CADET), age |-> RInt(20),
                  specialization |-> RStr(Cleaning),
                  years_experience |-> RInt(0),
                  is_active |-> RBool(TRUE)] >>)]

MemberAlts ==
    [member_id |-> {RStr(<<"C", "M">>)},
     name |-> {RStr(<<"A">>)},
     rank |-> {RStr(<<"a", "d", "m", "i", "r", "a", "l">>)},
     age |-> IntsNear(18, 80),
     specialization |-> {Absent},
     years_experience |-> IntsNear(0, 50),
     is_active |-> BoolInputs]

\* a captain with at most one field replaced
MemberVariants ==
    ChangedFrom(Member(CAPTAIN, 19, TRUE), CrewMember, MemberAlts, 1, 1)

\* a captain with two invalid fields
TwiceInvalid ==
    {[Member(CAPTAIN, 19, TRUE) EXCEPT !.age = RInt(a),
                                       !.years_experience = RInt(y)]
     : a \in {17, 81}, y \in {0 - 1, 51}}

\* members with one invalid field, put at the head of a list of 13
OverlongHeads ==
    {[Member(CAPTAIN, 19, TRUE) EXCEPT !.age = RInt(17)],
     [Member(CAPTAIN, 19, TRUE) EXCEPT !.years_experience = RInt(51)],
     [Member(CAPTAIN, 19, TRUE) EXCEPT
         !.is_active = RStr(<<"m", "a", "y", "b", "e">>)]}

MemberProfiles ==
    {Member(r, y, a) : r \in {CADET, CAPTAIN, COMMANDER}, y \in {4, 5},
                       a \in BOOLEAN}

\* a captain, then j experienced cadets, then inexperienced ones: n in all
Graded(n, j) ==
    [i \in 1..n |-> IF i = 1 THEN Member(CAPTAIN, 5, TRUE)
                    ELSE IF i <= j + 1 THEN Member(CADET, 5, TRUE)
                    ELSE Member(CADET, 4, TRUE)]

RuleCrews ==
    UNION {[1..n -> MemberProfiles] : n \in 1..MaxCrew}
        \cup {Graded(n, j) : n \in {3, 12}, j \in 0..11}

MissionAlts ==
    [mission_id |-> {RStr(<<"M", "1">>), RStr(X2024_TITAN), Absent},
     mission_name |-> {RStr(<<"M">>)},
     destination |-> {RStr(<<"X">>)},
     launch_date |-> {RStr(Yesterday)},
     duration_days |-> IntsNear(1, 3650) \cup {RInt(100), RInt(365), RInt(366)},
     crew |-> {RList(<<>>), Absent, RList(Rep(Member(CAPTAIN, 19, TRUE), 12)),
               RList(Rep(Member(CAPTAIN, 19, TRUE), 13))}
              \cup {RList(<<v>>) : v \in MemberVariants \cup TwiceInvalid}
              \cup {RList(<<Member(COMMANDER, 5, TRUE), v>>)
                    : v \in MemberVariants}
              \cup {RList(<<v>> \o Rep(Member(CAPTAIN, 19, TRUE), 12))
                    : v \in OverlongHeads},
     mission_status |-> {Absent, RInt(1)},
     budget_millions |-> FloatsNear(10, 100000)]

\* every combination of the values the four rules tell apart, all of them
\* valid field values
MissionRuleCases ==
    {[MissionValid EXCEPT !.mission_id = RStr(id), !.duration_days = RInt(d),
                          !.crew = RList(c)]
     : id \in {M2024_TITAN, X2024_TITAN}, d \in {365, 366}, c \in RuleCrews}


(***************************************************************************)
(* The validation call.  pc follows one call: Pending, FieldsValidated     *)
(* (the fields passed and the model validator is about to run),            *)
(* RulesValidated (the object is returned), Failed (ValidationError is     *)
(* raised, errors being e.errors()).                                       *)
(***************************************************************************)
NoObject == <<>>

\* raw is r with at most k of the fields from-th, ... replaced by one of the
\* field's alternative raw values
RECURSIVE DrawChanged(_, _, _, _, _)
DrawChanged(r, fields, alts, from, k) ==
    \/ raw = r
    \/ /\ k > 0
       /\ \E i \in from..Len(fields) :
            \E v \in alts[fields[i].name] :
                DrawChanged([r EXCEPT ![fields[i].name] = v], fields, alts,
                            i + 1, k - 1)

Init ==
    /\ \/ /\ model = "SpaceStation"
          /\ \E b \in {StationValid, StationInvalid} :
                DrawChanged(b, SpaceStation, StationAlts, 1, MaxChanged)
       \/ /\ model = "AlienContact"
          /\ \/ raw \in ContactRuleCases
             \/ \E b \in {ContactValid, ContactInvalid} :
                    DrawChanged(b, AlienContact, ContactAlts, 1, MaxChanged)
       \/ /\ model = "CrewMember"
          /\ DrawChanged(Member(CAPTAIN, 19, TRUE), CrewMember, MemberAlts, 1,
                         MaxChanged)
       \/ /\ model = "SpaceMission"
          /\ \/ raw \in MissionRuleCases
             \/ \E b \in {MissionValid, MissionInvalid} :
                    DrawChanged(b, SpaceMission, MissionAlts, 1, MaxChanged)
    /\ pc = "Pending"
    /\ candidate = NoObject
    /\ errors = <<>>
    /\ exc = "none"
    /\ rules_run = <<>>

\* field validation of a class: all the fields, every error kept; passed is
\* where the call stands when no field failed
Fields(fields, passed) ==
    LET v == ValidateModel(fields, raw)
    IN /\ errors' = v.errs
       /\ IF FieldsPassed(v.errs)
          THEN pc' = passed /\ candidate' = v.obj /\ exc' = "none"
          ELSE /\ pc' = "Failed"
               /\ candidate' = NoObject
               /\ exc' = "ValidationError"
       /\ UNCHANGED <<model, raw, rules_run>>

\* a model validator called on the candidate
After(r) ==
    /\ rules_run' = r.run
    /\ IF r.raised
       THEN /\ pc' = "Failed"
            /\ errors' = <<RuleError(r.msg)>>
            /\ exc' = Propagated(r)
            /\ candidate' = NoObject
       ELSE /\ pc' = "RulesValidated"
            /\ UNCHANGED <<errors, exc, candidate>>
    /\ UNCHANGED <<model, raw>>

\* SpaceStation(**data): the class has no model validator
SpaceStationCall ==
    /\ model = "SpaceStation" /\ pc = "Pending"
    /\ Fields(SpaceStation, "RulesValidated")

\* CrewMember(**data): the class has no model validator
CrewMemberCall ==
    /\ model = "CrewMember" /\ pc = "Pending"
    /\ Fields(CrewMember, "RulesValidated")

\* AlienContact(**data), up to the model validator
AlienContactFields ==
    /\ model = "AlienContact" /\ pc = "Pending"
    /\ Fields(AlienContact, "FieldsValidated")

AlienContactAfter ==
    /\ model = "AlienContact" /\ pc = "FieldsValidated"
    /\ After(validate_business_rules(candidate))

\* SpaceMission.model_validate(data), up to the model validator
SpaceMissionFields ==
    /\ model = "SpaceMission" /\ pc = "Pending"
    /\ Fields(SpaceMission, "FieldsValidated")

SpaceMissionAfter ==
    /\ model = "SpaceMission" /\ pc = "FieldsValidated"
    /\ After(validate_mission_safety(candidate))

Next ==
    \/ SpaceStationCall
    \/ CrewMemberCall
    \/ AlienContactFields
    \/ AlienContactAfter
    \/ SpaceMissionFields
    \/ SpaceMissionAfter

Spec == Init /\ [][Next]_vars

(***************************************************************************)
(* Properties.  They are stated on the input of the call (raw) and on what *)
(* the caller gets (pc, errors, exc, and the object when one is returned). *)
(***************************************************************************)
FieldsOf(m) ==
    CASE m = "SpaceStation" -> SpaceStation
      [] m = "CrewMember" -> CrewMember
      [] m = "AlienContact" -> AlienContact
      [] m = "SpaceMission" -> SpaceMission

Terminal == pc \in {"RulesValidated", "Failed"}

\* the fields of the input, each checked on its own
InvalidFields ==
    {f \in FieldNames(FieldsOf(model)) :
        Len(ValidateField(FieldOf(FieldsOf(model), f), raw[f]).errs) > 0}

\* the typed record the rules are about, when every field is valid
Typed ==
    [f \in FieldNames(FieldsOf(model)) |->
        ValidateField(FieldOf(FieldsOf(model), f), raw[f]).val]

HasEntry(f) ==
    \E k \in 1..Len(errors) :
        errors[k].loc.field = f /\ errors[k].type # "value_error"

HasEntryOfType(f, type) ==
    \E k \in 1..Len(errors) : errors[k].loc.field = f /\ errors[k].type = type

HasMemberEntry(i, g, type) ==
    \E k \in 1..Len(errors) :
        /\ errors[k].loc = [field |-> "crew", index |-> i, sub |-> g]
        /\ errors[k].type = type

RuleEntries == {k \in 1..Len(errors) : errors[k].type = "value_error"}

Experienced(crew) == {i \in 1..Len(crew) : crew[i].years_experience >= 5}

\* the rules of each class that the typed record t violates, by their place in
\* the declaration order
ContactViolations(t) ==
    {n \in 1..4 :
        \/ n = 1 /\ ~startswith(t.contact_id, <<"A", "C">>)
        \/ n = 2 /\ t.contact_type = PHYSICAL /\ t.is_verified = FALSE
        \/ n = 3 /\ t.contact_type = TELEPATHIC /\ t.witness_count < 3
        \/ n = 4 /\ t.signal_strength > 70
                 /\ (t.message_received.isNone \/ t.message_received.s = <<>>)}

MissionViolations(t) ==
    {n \in 1..4 :
        \/ n = 1 /\ ~startswith(t.mission_id, <<"M">>)
        \/ n = 2 /\ \A i \in 1..Len(t.crew) :
                        t.crew[i].rank \notin {CAPTAIN, COMMANDER}
        \/ n = 3 /\ t.duration_days > 365
                 /\ 2 * Cardinality(Experienced(t.crew)) < Len(t.crew)
        \/ n = 4 /\ \E i \in 1..Len(t.crew) : t.crew[i].is_active = FALSE}

ContactMessages ==
    << "Contact ID must start with 'AC'",
       "Physical contact reports must be verified",
       "Telepathic contact requires at least 3 witnesses",
       "Strong signals (> 7.0) should include received messages" >>

MissionMessages ==
    << "Mission ID must start with 'M'",
       "Mission must have at least one Commander or Captain",
       "Long missions need 50% experienced crew (5+ years)",
       "All crew members must be active" >>

Violations ==
    IF model = "AlienContact" THEN ContactViolations(Typed)
    ELSE IF model = "SpaceMission" THEN MissionViolations(Typed)
    ELSE {}

Messages == IF model = "AlienContact" THEN ContactMessages ELSE MissionMessages

First(S) == CHOOSE n \in S : \A m \in S : n <= m

\* C1: an input whose fields all validate and that violates two or more rules
\* of its class fails with exactly one error, a rule error, and it is the
\* error of the violated rule that comes first in declaration order.
C1_RuleFailFast ==
    (Terminal /\ InvalidFields = {} /\ Cardinality(Violations) >= 2)
        => /\ pc = "Failed"
           /\ Len(errors) = 1
           /\ errors[1].type = "value_error"
           /\ errors[1].msg = Messages[First(Violations)]

\* a mission that has no leader and an inactive member is refused for the
\* missing leader only
C1_Witness ==
    /\ model = "SpaceMission" /\ pc = "Failed" /\ InvalidFields = {}
    /\ Violations = {2, 4}
    /\ Len(errors) = 1 /\ errors[1].msg = MissionMessages[2]

\* C2: when a field of the input (a crew member's field and the length of
\* the crew list included) has a field-level error, the model validator is
\* not entered, no rule is evaluated, and the report holds no rule error.
C2_NoRulesAfterFieldError ==
    (model \in {"AlienContact", "SpaceMission"} /\ InvalidFields # {})
        => /\ pc \in {"Pending", "Failed"}
           /\ rules_run = <<>>
           /\ RuleEntries = {}

\* the telepathic contact with one witness of main(), with a duration of 0
\* minutes: only the field error is reported
C2_Witness ==
    /\ model = "AlienContact" /\ pc = "Failed"
    /\ raw = [ContactInvalid EXCEPT !.duration_minutes = RInt(0)]
    /\ Len(errors) = 1 /\ errors[1].loc.field = "duration_minutes"
    /\ rules_run = <<>>

\* the fields of crew member i of the input that are invalid on their own
InvalidMemberFields(i) ==
    {g \in FieldNames(CrewMember) :
        Len(ValidateField(FieldOf(CrewMember, g), raw.crew.v[i][g]).errs) > 0}

\* the crew of the input is a list that passes the list's own max_length
CrewWithinMax == raw.crew.t = "list" /\ Len(raw.crew.v) <= 12

\* C3: an input with two or more invalid fields fails, and the report holds
\* an error entry for each invalid field of the class, not only for the
\* first; the same holds among the fields of one crew member of a mission
\* (the members of a list longer than max_length are not reported: the list
\* itself is the invalid field).
C3_FieldAggregation ==
    Terminal =>
        /\ Cardinality(InvalidFields) >= 2 =>
              /\ pc = "Failed"
              /\ \A f \in InvalidFields : HasEntry(f)
              /\ Len(errors) >= Cardinality(InvalidFields)
        /\ (model = "SpaceMission" /\ CrewWithinMax) =>
              \A i \in 1..Len(raw.crew.v) :
                 Cardinality(InvalidMemberFields(i)) >= 2 =>
                    /\ pc = "Failed"
                    /\ \A g \in InvalidMemberFields(i) :
                          \E k \in 1..Len(errors) :
                             errors[k].loc = [field |-> "crew",
                                              index |-> i - 1, sub |-> g]

\* a station with crew_size 21 and power_level 101.0: both are reported
C3_Witness ==
    /\ model = "SpaceStation" /\ pc = "Failed"
    /\ raw.crew_size = RInt(21) /\ raw.power_level = RFloat(1010)
    /\ Len(errors) = 2
    /\ HasEntryOfType("crew_size", "less_than_equal")
    /\ HasEntryOfType("power_level", "less_than_equal")

\* C4: for a mission whose fields are valid, whose mission_id starts with 'M'
\* and which has a captain or a commander, the experience rule fails exactly
\* when duration_days > 365 and twice the number of members with
\* years_experience >= 5 is below the crew count.
C4_GatedProportion ==
    (/\ model = "SpaceMission" /\ Terminal /\ InvalidFields = {}
     /\ startswith(Typed.mission_id, <<"M">>)
     /\ \E i \in 1..Len(Typed.crew) :
            Typed.crew[i].rank \in {CAPTAIN, COMMANDER})
        => ( (pc = "Failed" /\ Len(errors) = 1
                /\ errors[1].msg = MissionMessages[3])
             <=> (/\ Typed.duration_days > 365
                  /\ 2 * Cardinality(Experienced(Typed.crew))
                        < Len(Typed.crew)) )

\* a crew of three with one experienced member on a mission of 366 days
C4_Witness ==
    /\ model = "SpaceMission" /\ pc = "Failed"
    /\ raw.duration_days = RInt(366) /\ raw.crew = RList(Graded(3, 0))
    /\ errors[1].msg = MissionMessages[3]

\* C5: a contact whose fields all validate is accepted if and only if it
\* violates none of the four rules: the id starts with 'AC', a physical
\* contact is verified, a telepathic one has at least 3 witnesses, and a
\* signal above 7.0 comes with a non-empty message.
C5_ContactAccepted ==
    (model = "AlienContact" /\ Terminal /\ InvalidFields = {})
        => ( pc = "RulesValidated"
             <=> /\ startswith(Typed.contact_id, <<"A", "C">>)
                 /\ (Typed.contact_type = PHYSICAL => Typed.is_verified)
                 /\ (Typed.contact_type = TELEPATHIC
                        => Typed.witness_count >= 3)
                 /\ (Typed.signal_strength > 70
                        => /\ ~Typed.message_received.isNone
                           /\ Len(Typed.message_received.s) > 0) )

\* a signal of exactly 7.0 without a message is accepted
C5_Witness ==
    /\ model = "AlienContact" /\ pc = "RulesValidated"
    /\ raw.signal_strength = RFloat(70) /\ raw.message_received = Absent

\* the same contact with a signal of 7.1 and an empty message is refused
C5_WitnessEmptyMessage ==
    /\ model = "AlienContact" /\ pc = "Failed"
    /\ raw.signal_strength = RFloat(71) /\ raw.message_received = RStr(<<>>)
    /\ errors[1].msg = ContactMessages[4]

\* the numeric fields with declared bounds, in the field's own unit (1 for an
\* int, 10 tenths for a float)
NumericFields(m) ==
    CASE m = "SpaceStation" ->
            { [f |-> "crew_size", lo |-> 1, hi |-> 20, unit |-> 1],
              [f |-> "power_level", lo |-> 0, hi |-> 1000, unit |-> 10],
              [f |-> "oxygen_level", lo |-> 0, hi |-> 1000, unit |-> 10] }
      [] m = "AlienContact" ->
            { [f |-> "signal_strength", lo |-> 0, hi |-> 100, unit |-> 10],
              [f |-> "duration_minutes", lo |-> 1, hi |-> 1440, unit |-> 1],
              [f |-> "witness_count", lo |-> 1, hi |-> 100, unit |-> 1] }
      [] m = "CrewMember" ->
            { [f |-> "age", lo |-> 18, hi |-> 80, unit |-> 1],
              [f |-> "years_experience", lo |-> 0, hi |-> 50, unit |-> 1] }
      [] m = "SpaceMission" ->
            { [f |-> "duration_days", lo |-> 1, hi |-> 3650, unit |-> 1],
              [f |-> "budget_millions", lo |-> 10, hi |-> 100000, unit |-> 10] }

Number(b, n) == IF b.unit = 10 THEN RFloat(n) ELSE RInt(n)

HasAnyMemberEntry(i, g) ==
    \E k \in 1..Len(errors) :
        errors[k].loc = [field |-> "crew", index |-> i, sub |-> g]

\* C6: for every numeric field with declared bounds, a value equal to the
\* declared minimum or maximum passes the field's check, and a value one unit
\* below the minimum or above the maximum is a range error on that field: on
\* the class that declares the field, and on crew[i] of a mission whose crew
\* list passes the list's own max_length (a longer list is the invalid field,
\* and its members are not reported).
C6_RangeInclusive ==
    Terminal =>
        /\ \A b \in NumericFields(model) :
              /\ raw[b.f] \in {Number(b, b.lo), Number(b, b.hi)}
                    => ~HasEntry(b.f)
              /\ raw[b.f] = Number(b, b.lo - b.unit)
                    => HasEntryOfType(b.f, "greater_than_equal")
              /\ raw[b.f] = Number(b, b.hi + b.unit)
                    => HasEntryOfType(b.f, "less_than_equal")
        /\ (model = "SpaceMission" /\ CrewWithinMax) =>
              \A i \in 1..Len(raw.crew.v) : \A b \in NumericFields("CrewMember") :
                 /\ raw.crew.v[i][b.f] \in {Number(b, b.lo), Number(b, b.hi)}
                       => ~HasAnyMemberEntry(i - 1, b.f)
                 /\ raw.crew.v[i][b.f] = Number(b, b.lo - b.unit)
                       => HasMemberEntry(i - 1, b.f, "greater_than_equal")
                 /\ raw.crew.v[i][b.f] = Number(b, b.hi + b.unit)
                       => HasMemberEntry(i - 1, b.f, "less_than_equal")

\* a station with 20 crew and a power level of 0.0 is accepted
C6_Witness ==
    /\ model = "SpaceStation" /\ pc = "RulesValidated"
    /\ raw.crew_size = RInt(20) /\ raw.power_level = RFloat(0)

\* a crew member of age 17 is a range error on crew[1].age
C6_WitnessMember ==
    /\ model = "SpaceMission" /\ pc = "Failed"
    /\ raw.crew.t = "list" /\ Len(raw.crew.v) = 2
    /\ raw.crew.v[2].age = RInt(17)
    /\ HasMemberEntry(1, "age", "greater_than_equal")

\* the station of main() with crew_size 25: one error, on crew_size
C6_WitnessScenarioA ==
    /\ model = "SpaceStation" /\ pc = "Failed" /\ raw = StationInvalid
    /\ Len(errors) = 1 /\ HasEntryOfType("crew_size", "less_than_equal")

\* C7 as claimed: a validation call never ends with an exception raised to
\* its caller.
C7_NeverRaises == Terminal => exc = "none"

\* C7 as amended: a validation call that ends, ends by returning the object, or by
\* raising ValidationError to its caller and returning nothing; the
\* ValidationError holds an entry for every invalid field, or the one entry
\* of the first failing rule, and a model validator's ValueError never
\* reaches the caller as such.
C7_ReturnsOrRaisesValidationError ==
    /\ exc \in {"none", "ValidationError"}
    /\ pc = "RulesValidated"
          => exc = "none" /\ errors = <<>> /\ DOMAIN candidate # {}
    /\ pc = "Failed"
          => /\ exc = "ValidationError"
             /\ DOMAIN candidate = {}
             /\ Len(errors) >= 1
             /\ \A f \in InvalidFields : HasEntry(f)
             /\ InvalidFields = {}
                   => /\ Len(errors) = 1
                      /\ errors[1].type = "value_error"
                      /\ errors[1].msg = Messages[First(Violations)]

\* the mission of main() whose only member is a cadet: ValidationError with
\* the leader rule's message
C7_Witness ==
    /\ model = "SpaceMission" /\ pc = "Failed" /\ raw = MissionInvalid
    /\ exc = "ValidationError"
    /\ errors = <<RuleError(MissionMessages[2])>>

BoolFields(m) ==
    CASE m = "SpaceStation" -> {"is_operational"}
      [] m = "AlienContact" -> {"is_verified"}
      [] m = "CrewMember" -> {"is_active"}
      [] m = "SpaceMission" -> {}

\* C8 as claimed: a raw value that is not of boolean type is a field-level
\* error on the boolean field.
C8_OnlyBoolInput ==
    Terminal =>
        \A f \in BoolFields(model) :
            raw[f].t \notin {"bool", "absent"} => HasEntry(f)

LaxTrue(r) ==
    \/ r = RInt(1)
    \/ r = RFloat(10)
    \/ /\ r.t = "str"
       /\ LowerStr(r.v) \in { <<"1">>, <<"o", "n">>, <<"t">>, <<"y">>,
                             <<"t", "r", "u", "e">>, <<"y", "e", "s">> }

LaxFalse(r) ==
    \/ r = RInt(0)
    \/ r = RFloat(0)
    \/ /\ r.t = "str"
       /\ LowerStr(r.v) \in { <<"0">>, <<"o", "f", "f">>, <<"f">>, <<"n">>,
                             <<"f", "a", "l", "s", "e">>, <<"n", "o">> }

\* what the boolean field holds for the raw value r
BoolOf(r) == IF r.t = "bool" THEN r.v ELSE LaxTrue(r)

\* C8 as amended: the boolean fields take a bool, and also the ints 0 and 1,
\* the floats 0.0 and 1.0 and the strings 0, 1, on, off, t, f, true, false,
\* y, n, yes, no in any letter case, which are coerced to the boolean they
\* name; every other raw value is a field-level error on the field (for
\* is_active, on the CrewMember and on crew[i] of a crew list that passes
\* the list's own max_length).
C8_LaxBoolInput ==
    Terminal =>
        /\ \A f \in BoolFields(model) :
              raw[f].t # "absent" =>
                 IF raw[f].t = "bool" \/ LaxTrue(raw[f]) \/ LaxFalse(raw[f])
                 THEN /\ ~HasEntry(f)
                      /\ pc = "RulesValidated" => candidate[f] = BoolOf(raw[f])
                 ELSE HasEntry(f)
        /\ (model = "SpaceMission" /\ CrewWithinMax) =>
              \A i \in 1..Len(raw.crew.v) :
                 LET r == raw.crew.v[i].is_active
                 IN r.t # "absent" =>
                       IF r.t = "bool" \/ LaxTrue(r) \/ LaxFalse(r)
                       THEN /\ ~HasAnyMemberEntry(i - 1, "is_active")
                            /\ pc = "RulesValidated"
                                  => candidate.crew[i].is_active = BoolOf(r)
                       ELSE HasAnyMemberEntry(i - 1, "is_active")

\* a station given is_operational "yes" is accepted, operational
C8_Witness ==
    /\ model = "SpaceStation" /\ pc = "RulesValidated"
    /\ raw.is_operational = RStr(<<"y", "e", "s">>)
    /\ candidate.is_operational = TRUE

\* a contact given is_verified "maybe" is refused on that field
C8_WitnessRefused ==
    /\ model = "AlienContact" /\ pc = "Failed"
    /\ raw.is_verified = RStr(<<"m", "a", "y", "b", "e">>)
    /\ HasEntryOfType("is_verified", "bool_parsing")

\* C10: every SpaceMission that is returned has a mission_id starting with
\* 'M', a crew of 1 to 12 members, a captain or commander among them, only
\* active members and, when duration_days > 365, at least half of the crew
\* with years_experience >= 5; and the leader rule is never evaluated on an
\* empty crew list.
C10_AcceptedMission ==
    model = "SpaceMission" =>
        /\ pc = "RulesValidated" =>
              /\ startswith(candidate.mission_id, <<"M">>)
              /\ Len(candidate.crew) \in 1..12
              /\ \E i \in 1..Len(candidate.crew) :
                    candidate.crew[i].rank \in {CAPTAIN, COMMANDER}
              /\ \A i \in 1..Len(candidate.crew) :
                    candidate.crew[i].is_active = TRUE
              /\ candidate.duration_days > 365
                    => 2 * Cardinality(Experienced(candidate.crew))
                          >= Len(candidate.crew)
        /\ (\E k \in 1..Len(rules_run) : rules_run[k] = "leader")
              => raw.crew.t = "list" /\ Len(raw.crew.v) >= 1

\* a mission of 366 days with a crew of 12, 6 of them experienced, is returned
C10_Witness ==
    /\ model = "SpaceMission" /\ pc = "RulesValidated"
    /\ candidate.duration_days = 366 /\ Len(candidate.crew) = 12
    /\ Cardinality(Experienced(candidate.crew)) = 6

\* the mission of main() whose only member is a cadet is not returned
C10_WitnessScenarioD ==
    /\ model = "SpaceMission" /\ pc = "Failed" /\ raw = MissionInvalid
    /\ rules_run = <<"id_prefix", "leader">>

====
